---- MODULE Spec2Model ----
(***************************************************************************)
(* Verification model of the m3u-STRM-Processor core.                      *)
(*                                                                         *)
(*  SpecMux : the shared stream connection multiplexer                     *)
(*            (backend/app/services/stream_connection_manager.py), for one *)
(*            (channel_id, stream_url) cache key: the manager lock, the    *)
(*            registry entry of the key, the successive StreamProxy        *)
(*            objects created for it, each proxy's fetch task, chunk       *)
(*            queue and client set, the callers and the idle reaper.       *)
(*  SpecDb  : the channels and channel_streams tables under the handlers   *)
(*            that write them: provider sync (tasks/sync_tasks.py), the    *)
(*            health batches (tasks/health_tasks.py), the operator's       *)
(*            stream update (api/channels.py) and channel merge            *)
(*            (api/merge.py).                                              *)
(***************************************************************************)
EXTENDS Integers, Sequences, FiniteSets, TLC

\* ------------------------------------------------------------------ bounds
NumCallers == 2      \* concurrent playback requests for the key
NumClientIds == 2    \* distinct client_id strings callers may pass
MaxProxies == 2      \* StreamProxy objects created for the key over a run
QueueMax == 1        \* stands for asyncio.Queue(maxsize=100)
MaxChunks == 2       \* upstream chunks received by one fetch task

NumProviders == 2    \* providers; odd ids are xstream, even ids m3u
NumRegions == 2      \* region values an entry can carry, besides none
NumVariants == 0     \* variant values an entry can carry, besides none
MaxChannels == 3     \* channel rows ever inserted
MaxStreams == 3      \* channel_streams rows ever inserted
DbRows == 2          \* rows per table the syncs of SpecDb insert
MaxCount == 2        \* cap on stream_count increments
MaxCf == 3           \* cap on consecutive_failures
MaxPrio == 0         \* largest priority_order an operator sets
MaxQuality == 0      \* quality scores range over 0..MaxQuality
MaxLen == 3            \* characters of a raw channel name
MaxRules == 1          \* rows of merge_rules
MaxConcurrent == 2   \* stands for max_concurrent = 50
BucketCapacity == 4  \* capacity of the bucket, bytes per second
MaxBytes == 5        \* largest bytes_count passed to consume()

Callers == 1..NumCallers
ClientIds == 1..NumClientIds
Proxies == 1..MaxProxies
Chunks == 1..MaxChunks
NoProxy == 0         \* the key is absent from active_streams
EndOfStream == 0     \* the None sentinel put on the chunk queue
NoHolder == 0        \* the manager lock is free
Reaper == NumCallers + 1   \* lock holder id of cleanup_idle_streams

VARIABLES
    \* --- StreamConnectionManager
    active_streams,  \* proxy registered under the key, or NoProxy
    lock,            \* holder of self._lock: a caller, Reaper or NoHolder
    created,         \* _stats['total_streams_created']
    rpc,             \* position of cleanup_idle_streams: "idle" | "closeWait"
    \* --- StreamProxy objects, indexed by creation order
    clients,         \* p -> set of client ids (self.clients)
    is_running,      \* p -> BOOLEAN
    error,           \* p -> BOOLEAN (self.error is set)
    task,            \* p -> position of _fetch_stream
    cancelReq,       \* p -> task.cancel() requested, CancelledError not yet raised
    queue,           \* p -> contents of _chunk_queue
    arrived,         \* p -> number of chunks read from upstream so far
    idle,            \* now - last_activity of the registered proxy exceeds the grace period
    closeCalls,      \* p -> number of StreamProxy.close() calls
    upClosed,        \* p -> times the upstream connection was released
    \* --- callers (one playback request each)
    pc,              \* g -> "idle" | "acquire" | "closeWait" | "holding" | "reading" | "done"
    px,              \* g -> proxy returned by get_or_create_stream
    cid,             \* g -> client_id passed by the caller
    recv,            \* g -> chunks yielded to the caller by read_chunks
    owed,            \* g -> chunks admitted to the queue while g was subscribed
    endOwed,         \* g -> the fetch of g's proxy ended while g was subscribed
    relCase,         \* g -> how g's subscription was released, once it was
    \* --- table channels, rows 1..nChan (cNorm = 0: the row was deleted)
    nChan, cNorm, cRegion, cVariant, cCount,
    \* --- table channel_streams, rows 1..nStrm
    nStrm, sChan, sProv, sUrl, sActive, sCf, sQual, sPrio,
    probed,          \* s -> result the health batch just run applied to s
    sName,           \* s -> original_name of the row (index in Catalogue)
    merge_info,      \* what the last _find_or_create_channel call returned
    resolving,       \* sync worker -> its entry between the lookups and the writes
    rules,           \* table merge_rules: the set of rule rows
    probe,           \* s -> position of the _check_and_record task of s in the batch
    permits,         \* value of StreamHealthChecker.semaphore
    outcome,         \* s -> what check_streams_batch returns for s
    \* --- ChannelMatcher.normalize_name on character strings
    raw,             \* a raw channel name
    alt,             \* the same name in another spelling (letter case, whitespace)
    keys,            \* the values normalize_name has returned so far
    \* --- QualityAnalyzer._calculate_quality_score
    qTier,           \* resolution of the stream being analysed
    qKbps,           \* its bitrate (kbps), NoBitrate for None
    qScore,          \* the score last computed for it, NotScored before
    \* --- merge metadata of channel_streams and the reply of a manual operation
    sMethod,         \* s -> merge_method of the row ("none": NULL)
    sManual,         \* s -> manual_override
    reply,           \* response body of the last split or merge request
    \* --- one BandwidthBucket and the coroutine that calls consume() on it
    tokens,          \* self.tokens
    since,           \* time.time() - self.last_refill, in units of 1/capacity s
    bPc,             \* position of the caller: "idle" | "sleeping" | "returned"
    bNeed,           \* bytes_count of the call
    bWait            \* time left of the asyncio.sleep of the call

mgrVars == <<active_streams, lock, created, rpc>>
proxyVars == <<clients, is_running, error, task, cancelReq, queue, arrived,
               idle, closeCalls, upClosed>>
callerVars == <<pc, px, cid, recv, owed, endOwed, relCase>>
muxVars == <<mgrVars, proxyVars, callerVars>>
chanVars == <<nChan, cNorm, cRegion, cVariant, cCount>>
strmVars == <<nStrm, sChan, sProv, sUrl, sActive, sCf, sQual, sPrio>>
dbVars == <<chanVars, strmVars, probed>>
resVars == <<sName, merge_info>>
raceVars == <<resolving>>
ruleVars == <<rules>>
probeVars == <<probe, permits, outcome>>
normVars == <<raw, alt, keys>>
scoreVars == <<qTier, qKbps, qScore>>
manVars == <<sMethod, sManual, reply>>
bktVars == <<tokens, since, bPc, bNeed, bWait>>
extVars == <<normVars, scoreVars, manVars, bktVars>>
coreVars == <<muxVars, dbVars, resVars, raceVars, ruleVars, probeVars>>
notNorm == <<coreVars, scoreVars, manVars, bktVars>>
notScore == <<coreVars, normVars, manVars, bktVars>>
notBkt == <<coreVars, normVars, scoreVars, manVars>>
offMan == <<raceVars, ruleVars, probeVars, normVars, scoreVars, bktVars>>
auxVars == <<resVars, raceVars, ruleVars, probeVars, extVars>>
vars == <<muxVars, dbVars, auxVars>>

\* ------------------------------------------------------------- StreamProxy
client_count(p) == Cardinality(clients[p])

is_alive(p) == is_running[p] /\ ~error[p]

\* self._task and not self._task.done()
TaskPending(p) == task[p] \notin {"none", "done"}

QueueFull(p) == Len(queue[p]) >= QueueMax

\* the finally clause of _fetch_stream, entered at position `from`:
\* is_running = False, then await self._chunk_queue.put(None)
FinallyQueue(p) == IF QueueFull(p) THEN queue[p] ELSE Append(queue[p], EndOfStream)
FinallyTask(p) == IF QueueFull(p) THEN "finalPut" ELSE "done"

MuxStart ==
    /\ active_streams = NoProxy
    /\ lock = NoHolder
    /\ created = 0
    /\ rpc = "idle"
    /\ clients = [p \in Proxies |-> {}]
    /\ is_running = [p \in Proxies |-> FALSE]
    /\ error = [p \in Proxies |-> FALSE]
    /\ task = [p \in Proxies |-> "none"]
    /\ cancelReq = [p \in Proxies |-> FALSE]
    /\ queue = [p \in Proxies |-> <<>>]
    /\ arrived = [p \in Proxies |-> 0]
    /\ idle = FALSE
    /\ closeCalls = [p \in Proxies |-> 0]
    /\ upClosed = [p \in Proxies |-> 0]
    /\ pc = [g \in Callers |-> "idle"]
    /\ px = [g \in Callers |-> NoProxy]
    /\ cid = [g \in Callers |-> 1]
    /\ recv = [g \in Callers |-> {}]
    /\ owed = [g \in Callers |-> {}]
    /\ endOwed = [g \in Callers |-> FALSE]
    /\ relCase = [g \in Callers |-> "none"]


\* ------------------------------------------------ StreamProxy._fetch_stream
\* leaving the `async with` blocks releases the upstream connection, then the
\* finally clause runs
EnterFinally(p, failed) ==
    /\ is_running' = [is_running EXCEPT ![p] = FALSE]
    /\ error' = [error EXCEPT ![p] = @ \/ failed]
    /\ upClosed' = [upClosed EXCEPT ![p] = @ + 1]
    /\ queue' = [queue EXCEPT ![p] = FinallyQueue(p)]
    /\ task' = [task EXCEPT ![p] = FinallyTask(p)]
    /\ endOwed' = [g \in Callers |-> endOwed[g] \/ (pc[g] = "reading" /\ px[g] = p)]

\* session.get() returned status 200
FetchConnected(p) ==
    /\ task[p] = "connecting" /\ ~cancelReq[p]
    /\ task' = [task EXCEPT ![p] = "streaming"]
    /\ UNCHANGED <<mgrVars, callerVars, clients, is_running, error, cancelReq,
                   queue, arrived, idle, closeCalls, upClosed>>
    /\ UNCHANGED <<dbVars, auxVars>>

\* connect error, HTTP status != 200 or read error: except Exception
FetchError(p) ==
    /\ task[p] \in {"connecting", "streaming"} /\ ~cancelReq[p]
    /\ EnterFinally(p, TRUE)
    /\ UNCHANGED <<mgrVars, pc, px, cid, recv, owed, relCase, clients, cancelReq,
                   arrived, idle, closeCalls>>
    /\ UNCHANGED <<dbVars, auxVars>>

\* the upstream body ends: the async for loop is exhausted
FetchEnd(p) ==
    /\ task[p] = "streaming" /\ ~cancelReq[p]
    /\ EnterFinally(p, FALSE)
    /\ UNCHANGED <<mgrVars, pc, px, cid, recv, owed, relCase, clients, cancelReq,
                   arrived, idle, closeCalls>>
    /\ UNCHANGED <<dbVars, auxVars>>

\* callers inside read_chunks of proxy p
Subscribed(p) == {g \in Callers : pc[g] = "reading" /\ px[g] = p}

\* the queue put succeeded: counters and last_activity are updated
Admit(p, c) ==
    /\ queue' = [queue EXCEPT ![p] = Append(@, c)]
    /\ idle' = (idle /\ p # active_streams)
    /\ owed' = [g \in Callers |->
                  IF g \in Subscribed(p) THEN owed[g] \cup {c} ELSE owed[g]]

\* one iteration of `async for chunk in response.content.iter_chunked(8192)`
ChunkArrives(p) ==
    /\ task[p] = "streaming" /\ ~cancelReq[p]
    /\ arrived[p] < MaxChunks
    /\ arrived' = [arrived EXCEPT ![p] = @ + 1]
    /\ IF ~is_running[p]
       THEN /\ EnterFinally(p, FALSE)
            /\ UNCHANGED <<idle, owed>>
       ELSE IF ~QueueFull(p)
       THEN /\ Admit(p, arrived[p] + 1)
            /\ UNCHANGED <<is_running, error, upClosed, task, endOwed>>
       ELSE /\ task' = [task EXCEPT ![p] = "putWait"]
            /\ UNCHANGED <<is_running, error, upClosed, queue, idle, owed, endOwed>>
    /\ UNCHANGED <<mgrVars, pc, px, cid, recv, relCase, clients, cancelReq,
                   closeCalls>>
    /\ UNCHANGED <<dbVars, auxVars>>

\* wait_for(queue.put(chunk), 5.0) completes because a slot was freed
PutUnblocked(p) ==
    /\ task[p] = "putWait" /\ ~cancelReq[p]
    /\ ~QueueFull(p)
    /\ Admit(p, arrived[p])
    /\ task' = [task EXCEPT ![p] = "streaming"]
    /\ UNCHANGED <<mgrVars, pc, px, cid, recv, endOwed, relCase, clients,
                   is_running, error, cancelReq, arrived, closeCalls, upClosed>>
    /\ UNCHANGED <<dbVars, auxVars>>

\* asyncio.TimeoutError: the chunk being put is dropped, the loop continues
PutTimeout(p) ==
    /\ task[p] = "putWait" /\ ~cancelReq[p]
    /\ QueueFull(p)
    /\ task' = [task EXCEPT ![p] = "streaming"]
    /\ UNCHANGED <<mgrVars, callerVars, clients, is_running, error, cancelReq,
                   queue, arrived, idle, closeCalls, upClosed>>
    /\ UNCHANGED <<dbVars, auxVars>>

\* the blocked put(None) of the finally clause completes
FinalPutUnblocked(p) ==
    /\ task[p] = "finalPut" /\ ~cancelReq[p]
    /\ ~QueueFull(p)
    /\ queue' = [queue EXCEPT ![p] = Append(@, EndOfStream)]
    /\ task' = [task EXCEPT ![p] = "done"]
    /\ UNCHANGED <<mgrVars, callerVars, clients, is_running, error, cancelReq,
                   arrived, idle, closeCalls, upClosed>>
    /\ UNCHANGED <<dbVars, auxVars>>

\* CancelledError is raised at the await the task is suspended at: inside the
\* try it is caught and the finally clause runs; inside the finally clause it
\* ends the task without the sentinel being put
FetchCancelled(p) ==
    /\ cancelReq[p] /\ TaskPending(p)
    /\ cancelReq' = [cancelReq EXCEPT ![p] = FALSE]
    /\ IF task[p] = "finalPut"
       THEN /\ task' = [task EXCEPT ![p] = "done"]
            /\ UNCHANGED <<is_running, error, upClosed, queue, endOwed>>
       ELSE EnterFinally(p, FALSE)
    /\ UNCHANGED <<mgrVars, pc, px, cid, recv, owed, relCase, clients, arrived,
                   idle, closeCalls>>
    /\ UNCHANGED <<dbVars, auxVars>>

\* time passes without a chunk being admitted: the registered proxy's
\* last_activity is now older than the idle grace period
GraceElapses ==
    /\ active_streams # NoProxy /\ ~idle
    /\ idle' = TRUE
    /\ UNCHANGED <<mgrVars, callerVars, clients, is_running, error, task,
                   cancelReq, queue, arrived, closeCalls, upClosed>>
    /\ UNCHANGED <<dbVars, auxVars>>

\* ------------------------------------------------------ StreamProxy.close
\* close() up to its `await self._task`: is_running = False and, when the
\* fetch task is not done, task.cancel()
CloseBegin(p) ==
    /\ closeCalls' = [closeCalls EXCEPT ![p] = @ + 1]
    /\ cancelReq' = [cancelReq EXCEPT ![p] = @ \/ TaskPending(p)]

\* ------------------------------- StreamConnectionManager.get_or_create_stream
\* mutant: the registry lookup misses a key that is present
HasEntry_Miss == FALSE

\* `cache_key in self.active_streams`
HasEntry == active_streams # NoProxy

\* mutant: a registered session is reused without looking at its state
Reusable_Unchecked(p) == TRUE

\* `proxy.is_alive or (proxy.is_running and not proxy.error)`
Reusable(p) == is_alive(p) \/ (is_running[p] /\ ~error[p])

\* StreamProxy(stream_url, channel_id), registration, proxy.start() and return;
\* `old` is the dead proxy closed just before, if any
CreateProxy(g, new, old) ==
    /\ created < MaxProxies
    /\ new = created + 1
    /\ active_streams' = new
    /\ created' = new
    /\ is_running' = [q \in Proxies |->
                        IF q = new THEN TRUE ELSE IF q = old THEN FALSE ELSE is_running[q]]
    /\ task' = [task EXCEPT ![new] = "connecting"]
    /\ idle' = FALSE
    /\ pc' = [pc EXCEPT ![g] = "holding"]
    /\ px' = [px EXCEPT ![g] = new]

\* a playback request arrives and calls get_or_create_stream with a client id;
\* it waits for the manager lock
Call(g, c) ==
    /\ pc[g] = "idle"
    /\ pc' = [pc EXCEPT ![g] = "acquire"]
    /\ cid' = [cid EXCEPT ![g] = c]
    /\ UNCHANGED <<mgrVars, proxyVars, px, recv, owed, endOwed, relCase>>
    /\ UNCHANGED <<dbVars, auxVars>>

\* the body of get_or_create_stream under the lock, up to its return or up to
\* the await inside proxy.close() of a dead session
GetOrCreate(g) ==
    /\ pc[g] = "acquire" /\ lock = NoHolder
    /\ IF HasEntry /\ Reusable(active_streams)
       THEN \* cache hit
            /\ pc' = [pc EXCEPT ![g] = "holding"]
            /\ px' = [px EXCEPT ![g] = active_streams]
            /\ UNCHANGED <<mgrVars, is_running, task, cancelReq, closeCalls, idle>>
       ELSE IF HasEntry /\ TaskPending(active_streams)
       THEN \* dead session whose task is still pending: close() awaits it
            /\ created < MaxProxies
            /\ CloseBegin(active_streams)
            /\ is_running' = [is_running EXCEPT ![active_streams] = FALSE]
            /\ lock' = g
            /\ pc' = [pc EXCEPT ![g] = "closeWait"]
            /\ UNCHANGED <<active_streams, created, rpc, task, px, idle>>
       ELSE IF HasEntry
       THEN \* dead session whose task is done: close(), del, create
            /\ closeCalls' = [closeCalls EXCEPT ![active_streams] = @ + 1]
            /\ CreateProxy(g, created + 1, active_streams)
            /\ UNCHANGED <<lock, rpc, cancelReq>>
       ELSE \* no session: create
            /\ CreateProxy(g, created + 1, NoProxy)
            /\ UNCHANGED <<lock, rpc, cancelReq, closeCalls>>
    /\ UNCHANGED <<clients, error, queue, arrived, upClosed, cid, recv, owed,
                   endOwed, relCase>>
    /\ UNCHANGED <<dbVars, auxVars>>

\* `await self._task` inside close() returns: del, create, return, unlock
CloseWaitDone(g) ==
    /\ pc[g] = "closeWait" /\ lock = g
    /\ ~TaskPending(active_streams)
    /\ CreateProxy(g, created + 1, active_streams)
    /\ lock' = NoHolder
    /\ UNCHANGED <<rpc, clients, error, cancelReq, queue, arrived,
                   closeCalls, upClosed, cid, recv, owed, endOwed, relCase>>
    /\ UNCHANGED <<dbVars, auxVars>>

\* ------------------------------- StreamConnectionManager.cleanup_idle_streams
\* the scan that fills to_remove; `force` is max_idle_seconds = 0, for which
\* every last_activity is old enough
ToRemove(force) ==
    /\ HasEntry
    /\ client_count(active_streams) = 0
    /\ force \/ idle

\* one pass under the lock, up to its end or up to the await inside close()
CleanupIdleStreams(force) ==
    /\ rpc = "idle" /\ lock = NoHolder
    /\ ToRemove(force)
    /\ CloseBegin(active_streams)
    /\ is_running' = [is_running EXCEPT ![active_streams] = FALSE]
    /\ IF TaskPending(active_streams)
       THEN /\ lock' = Reaper
            /\ rpc' = "closeWait"
            /\ UNCHANGED active_streams
       ELSE /\ active_streams' = NoProxy
            /\ UNCHANGED <<lock, rpc>>
    /\ UNCHANGED <<created, callerVars, clients, error, task, queue, arrived,
                   idle, upClosed>>
    /\ UNCHANGED <<dbVars, auxVars>>

\* `await self._task` inside close() returns: del, unlock
CleanupCloseDone ==
    /\ rpc = "closeWait" /\ lock = Reaper
    /\ ~TaskPending(active_streams)
    /\ active_streams' = NoProxy
    /\ lock' = NoHolder
    /\ rpc' = "idle"
    /\ UNCHANGED <<created, proxyVars, callerVars>>
    /\ UNCHANGED <<dbVars, auxVars>>

\* -------------------------------------------------- StreamProxy.read_chunks
\* mutant: the release empties the client set
Discard_Clear(S, c) == {}

\* self.clients.discard(client_id)
Discard(S, c) == S \ {c}

\* the generator has ended: the request is over and its locals are gone
Finished(g) ==
    /\ pc' = [pc EXCEPT ![g] = "done"]
    /\ px' = [px EXCEPT ![g] = NoProxy]
    /\ cid' = [cid EXCEPT ![g] = 1]
    /\ recv' = [recv EXCEPT ![g] = {}]
    /\ owed' = [owed EXCEPT ![g] = {}]
    /\ endOwed' = [endOwed EXCEPT ![g] = FALSE]
    /\ relCase' = [relCase EXCEPT ![g] =
                     IF cid[g] \notin clients[px[g]] THEN "repeated"
                     ELSE IF px[g] # active_streams THEN "absent"
                     ELSE "registered"]

\* first step of the generator: self.clients.add(client_id)
Subscribe(g) ==
    /\ pc[g] = "holding"
    /\ clients' = [clients EXCEPT ![px[g]] = @ \cup {cid[g]}]
    /\ pc' = [pc EXCEPT ![g] = "reading"]
    /\ UNCHANGED <<mgrVars, is_running, error, task, cancelReq, queue, arrived,
                   idle, closeCalls, upClosed, px, cid, recv, owed, endOwed,
                   relCase>>
    /\ UNCHANGED <<dbVars, auxVars>>

\* `chunk = await self._chunk_queue.get()`: a chunk is yielded, the sentinel
\* ends the generator through its finally clause
GetChunk(g) ==
    /\ pc[g] = "reading"
    /\ queue[px[g]] # <<>>
    /\ queue' = [queue EXCEPT ![px[g]] = Tail(@)]
    /\ IF Head(queue[px[g]]) = EndOfStream
       THEN /\ clients' = [clients EXCEPT ![px[g]] = Discard(@, cid[g])]
            /\ Finished(g)
       ELSE /\ recv' = [recv EXCEPT ![g] = @ \cup {Head(queue[px[g]])}]
            /\ UNCHANGED <<clients, pc, px, cid, owed, endOwed, relCase>>
    /\ UNCHANGED <<mgrVars, is_running, error, task, cancelReq, arrived, idle,
                   closeCalls, upClosed>>
    /\ UNCHANGED <<dbVars, auxVars>>

\* the client disconnects: the generator is closed and its finally clause runs
Disconnect(g) ==
    /\ pc[g] = "reading"
    /\ clients' = [clients EXCEPT ![px[g]] = Discard(@, cid[g])]
    /\ Finished(g)
    /\ UNCHANGED <<mgrVars, is_running, error, task, cancelReq, queue, arrived,
                   idle, closeCalls, upClosed>>
    /\ UNCHANGED <<dbVars, auxVars>>

\* =================================================== channels and streams
Providers == 1..NumProviders
Names == {1}                 \* normalized names of the entries
Regions == 0..NumRegions     \* 0: no region token in the raw name
Variants == 0..NumVariants   \* 0: no variant token in the raw name
Urls == {1}                  \* stream URLs a provider serves
Qualities == 0..MaxQuality
ChanIds == 1..MaxChannels
StrmIds == 1..MaxStreams
NoRow == 0
FailureThreshold == 3

DbStart ==
    /\ nChan = 0
    /\ cNorm = [c \in ChanIds |-> NoRow]
    /\ cRegion = [c \in ChanIds |-> 0]
    /\ cVariant = [c \in ChanIds |-> 0]
    /\ cCount = [c \in ChanIds |-> 0]
    /\ nStrm = 0
    /\ sChan = [s \in StrmIds |-> NoRow]
    /\ sProv = [s \in StrmIds |-> 1]
    /\ sUrl = [s \in StrmIds |-> 1]
    /\ sActive = [s \in StrmIds |-> FALSE]
    /\ sCf = [s \in StrmIds |-> 0]
    /\ sQual = [s \in StrmIds |-> 0]
    /\ sPrio = [s \in StrmIds |-> 0]
    /\ probed = [s \in StrmIds |-> "none"]

\* no resolve has returned yet; no row carries an original_name
ResStart ==
    /\ sName = [s \in StrmIds |-> 0]
    /\ merge_info = [channel |-> NoRow, confidence |-> 0, method |-> "none",
                     fuzzy |-> FALSE]

\* a sync worker that is not inside _find_or_create_channel
IdleWorker == [pc |-> "idle", nm |-> 0, how |-> "none", ch |-> NoRow]

\* no sync running, no merge rule, no health batch running
AuxStart ==
    /\ resolving = [w \in 1..NumProviders |-> IdleWorker]
    /\ rules = {}
    /\ probe = [s \in StrmIds |-> "none"]
    /\ permits = MaxConcurrent
    /\ outcome = [s \in StrmIds |-> "none"]

Channels == {c \in ChanIds : cNorm[c] # NoRow}
Streams == {s \in StrmIds : sChan[s] # NoRow}
NotProbed == [s \in StrmIds |-> "none"]

\* provider.provider_type == 'xstream'
IsXstream(prov) == prov % 2 = 1

\* ---------------------------------------- ChannelMatcher.is_same_channel
\* for two names with the same normalized name (base similarity 100): the
\* region and variant tests
\* mutant: a region difference does not disqualify
IsSameChannel_AnyRegion(r1, r2, v1, v2) ==
    ~(v1 # 0 /\ v2 # 0 /\ v1 # v2)

IsSameChannel(r1, r2, v1, v2) ==
    /\ ~(r1 # 0 /\ r2 # 0 /\ r1 # r2)
    /\ ~(v1 # 0 /\ v2 # 0 /\ v1 # v2)

\* ======================================================= channel names
\* A raw channel name is a sequence of words; br marks a word written inside
\* [brackets] or (parentheses). Words are lower case, as after name.lower().
W(word) == [w |-> word, br |-> FALSE]
B(word) == [w |-> word, br |-> TRUE]

\* the names the providers list
Catalogue ==
    << <<W("espn")>>,                      \* 1 "ESPN"
       <<W("espn"), B("east")>>,           \* 2 "ESPN [East]"
       <<W("espn"), B("west")>>,           \* 3 "ESPN [West]"
       <<W("espn"), B("hd")>>,             \* 4 "ESPN (HD)"
       <<W("espn"), B("sd")>>,             \* 5 "ESPN (SD)"
       <<W("bbc"), W("one")>>,             \* 6 "BBC One"
       <<W("bbc"), W("one"), W("hd")>>,    \* 7 "BBC One HD"
       <<W("channel"), W("east")>>,        \* 8 "Channel East"
       <<W("channel"), W("west")>> >>      \* 9 "Channel West"
NameIds == DOMAIN Catalogue

\* ChannelMatcher.REGIONS and ChannelMatcher.VARIANTS, in the order of the
\* lists, cut to the words the catalogue uses
REGIONS == <<"east", "west">>
VARIANTS == <<"hd", "sd">>

\* ChannelMatcher.normalize_name: the bracketed parts are removed, the rest
\* is joined by single spaces
normalize_name(name) ==
    LET kept == SelectSeq(name, LAMBDA t : ~t.br)
    IN  [i \in 1..Len(kept) |-> kept[i].w]

\* the words of the name that `\b word \b` can find: all of them, brackets
\* being word boundaries
WordsOf(name) == {name[i].w : i \in 1..Len(name)}

\* first element of `list` that is a word of the name, as its index; 0: None
FirstListed(list, name) ==
    LET hits == {i \in 1..Len(list) : list[i] \in WordsOf(name)}
    IN  IF hits = {} THEN 0 ELSE CHOOSE i \in hits : \A j \in hits : i <= j

\* ChannelMatcher.extract_region / extract_variant
extract_region(name) == FirstListed(REGIONS, name)
extract_variant(name) == FirstListed(VARIANTS, name)

\* ChannelMatcher.extract_base_name: the normalized name without the region
\* and variant words
extract_base_name(name) ==
    SelectSeq(normalize_name(name),
              LAMBDA x : /\ \A i \in 1..Len(REGIONS) : x # REGIONS[i]
                         /\ \A i \in 1..Len(VARIANTS) : x # VARIANTS[i])

\* the distinct normalized names of the catalogue; a normalized_name column
\* holds the index of its value in this table
NormTable ==
    << <<"espn">>, <<"bbc", "one">>, <<"bbc", "one", "hd">>,
       <<"channel", "east">>, <<"channel", "west">> >>
NormKey(name) == CHOOSE i \in DOMAIN NormTable : NormTable[i] = normalize_name(name)

\* what the sync loop extracts from each name of the catalogue before it
\* calls _find_or_create_channel
Extracted ==
    [nm \in NameIds |-> [n |-> NormKey(Catalogue[nm]),
                         r |-> extract_region(Catalogue[nm]),
                         v |-> extract_variant(Catalogue[nm])]]

\* (normalized name, region, variant) of each name of the catalogue
IdentityOf ==
    [nm \in NameIds |-> <<normalize_name(Catalogue[nm]),
                          extract_region(Catalogue[nm]),
                          extract_variant(Catalogue[nm])>>]

\* ChannelMatcher.calculate_similarity of two equal strings: every ratio is 100
SameTextScore == 100
\* ChannelMatcher.fuzzy_threshold
fuzzy_threshold == 85

\* calculate_similarity as _find_or_create_channel uses it: its candidates
\* are the channels whose normalized name equals the entry's
calculate_similarity(nm, c) ==
    IF cNorm[c] = Extracted[nm].n THEN SameTextScore ELSE 0

\* the same score for an entry given by its normalized name
Similarity(n, c) == IF cNorm[c] = n THEN SameTextScore ELSE 0

\* --------------------------------------- sync_tasks._find_or_create_channel
ExactMatches(n, r, v) ==
    {c \in Channels : cNorm[c] = n /\ cRegion[c] = r /\ cVariant[c] = v}

\* mutant: every candidate of the name query qualifies
FuzzyMatches_AnyCandidate(n, r, v) == {c \in Channels : cNorm[c] = n}

\* the candidates for which is_same_channel holds: names with one normalized
\* name have one base name, whose similarity is compared with the threshold
FuzzyMatches(n, r, v) ==
    {c \in Channels : /\ cNorm[c] = n
                      /\ Similarity(n, c) >= fuzzy_threshold
                      /\ IsSameChannel(r, cRegion[c], v, cVariant[c])}

\* `if similarity > best_similarity`: the loop keeps a qualifying candidate
\* that no other one beats; among equal scores the first in query order
BestMatches(n, r, v) ==
    {c \in FuzzyMatches(n, r, v) :
        \A d \in FuzzyMatches(n, r, v) : Similarity(n, c) >= Similarity(n, d)}

\* mutant: the fuzzy step is tried before the exact one
ResolveHow_FuzzyFirst(n, r, v) ==
    IF FuzzyMatches(n, r, v) # {} THEN "fuzzy"
    ELSE IF ExactMatches(n, r, v) # {} THEN "exact"
    ELSE "new"

\* "exact", "fuzzy" or "new"
ResolveHow(n, r, v) ==
    IF ExactMatches(n, r, v) # {} THEN "exact"
    ELSE IF FuzzyMatches(n, r, v) # {} THEN "fuzzy"
    ELSE "new"

\* the channels the lookup may return (the queries carry no ORDER BY)
ResolveTo(n, r, v) ==
    IF ExactMatches(n, r, v) # {} THEN ExactMatches(n, r, v)
    ELSE IF FuzzyMatches(n, r, v) # {} THEN BestMatches(n, r, v)
    ELSE {nChan + 1}

\* ------------------------- sync_tasks._sync_xstream_provider / _sync_m3u_provider
\* the writes for one entry of a provider's listing once the lookups have
\* resolved it to channel ch in the way `how`: create or count the channel,
\* insert the stream row unless (channel, provider, url) is already recorded
AttachEntry(prov, n, r, v, u, q, ch, how) ==
    /\ ch \in ChanIds
    /\  LET existing == {s \in Streams : sChan[s] = ch /\ sProv[s] = prov /\ sUrl[s] = u}
            new == nStrm + 1
        IN  /\ how = "new" => nChan < MaxChannels
            /\ how = "fuzzy" => cCount[ch] < MaxCount
            /\ existing = {} => nStrm < MaxStreams
            /\ nChan' = IF how = "new" THEN ch ELSE nChan
            /\ cNorm' = IF how = "new" THEN [cNorm EXCEPT ![ch] = n] ELSE cNorm
            /\ cRegion' = IF how = "new" THEN [cRegion EXCEPT ![ch] = r] ELSE cRegion
            /\ cVariant' = IF how = "new" THEN [cVariant EXCEPT ![ch] = v] ELSE cVariant
            /\ cCount' = IF how = "new" THEN [cCount EXCEPT ![ch] = 1]
                         ELSE IF how = "fuzzy" THEN [cCount EXCEPT ![ch] = @ + 1]
                         ELSE cCount
            /\ IF existing = {}
               THEN /\ nStrm' = new
                    /\ sChan' = [sChan EXCEPT ![new] = ch]
                    /\ sProv' = [sProv EXCEPT ![new] = prov]
                    /\ sUrl' = [sUrl EXCEPT ![new] = u]
                    /\ sActive' = [sActive EXCEPT ![new] = TRUE]
                    /\ sCf' = [sCf EXCEPT ![new] = 0]
                    /\ sQual' = [sQual EXCEPT ![new] = q]
                    /\ sPrio' = [sPrio EXCEPT ![new] = 0]
               ELSE /\ sQual' = [s \in StrmIds |->
                                   IF s \in existing /\ IsXstream(prov) THEN q ELSE sQual[s]]
                    /\ UNCHANGED <<nStrm, sChan, sProv, sUrl, sActive, sCf, sPrio>>
            /\ probed' = NotProbed
            /\ UNCHANGED muxVars

\* one entry, resolved to ch by lookups that see every earlier write
SyncEntryTo(prov, n, r, v, u, q, ch) ==
    /\ ch \in ResolveTo(n, r, v)
    /\ AttachEntry(prov, n, r, v, u, q, ch, ResolveHow(n, r, v))

SyncEntry(prov, n, r, v, u, q) ==
    \E ch \in ChanIds : SyncEntryTo(prov, n, r, v, u, q, ch)

\* the merge_info _find_or_create_channel returns with channel ch; fuzzy
\* tells whether the candidate query of the fuzzy step was run
MergeInfoFor(nm, ch, how) ==
    [channel |-> ch,
     confidence |-> IF how = "fuzzy" THEN calculate_similarity(nm, ch) ELSE 100,
     method |-> IF how = "fuzzy" THEN "fuzzy_match" ELSE "exact_match",
     fuzzy |-> how # "exact"]

MergeInfo(nm, n, r, v, ch) == MergeInfoFor(nm, ch, ResolveHow(n, r, v))

\* the same entry as the sync loop sees it: a raw name, from which region,
\* variant and normalized name are extracted; the row keeps the raw name
IngestEntry(prov, nm, u, q) ==
    LET n == Extracted[nm].n
        r == Extracted[nm].r
        v == Extracted[nm].v
    IN  \E ch \in ChanIds :
            /\ SyncEntryTo(prov, n, r, v, u, q, ch)
            /\ merge_info' = MergeInfo(nm, n, r, v, ch)
            /\ sName' = IF nStrm' = nStrm THEN sName
                        ELSE [sName EXCEPT ![nStrm'] = nm]

\* -------------------------------------------------------------- health_tasks
\* mutant: the comparison with the threshold is strict
Deactivates_Late(failures) == failures > FailureThreshold

\* `if stream.consecutive_failures >= 3`
Deactivates(failures) == failures >= FailureThreshold

\* the per-result update of a stream row; res is "alive", "dead" or "none"
\* (no result came back for the stream)
CfAfter(res, s) ==
    IF res = "alive" THEN 0 ELSE IF res = "dead" THEN sCf[s] + 1 ELSE sCf[s]

ActiveAfter(res, s) ==
    IF res = "dead" /\ Deactivates(sCf[s] + 1) THEN FALSE ELSE sActive[s]

\* the rankings `ORDER BY quality_score DESC` may produce for a set of rows
Rankings(S, qual) ==
    {rk \in [S -> 0..(Cardinality(S) - 1)] :
        /\ \A a, b \in S : a # b => rk[a] # rk[b]
        /\ \A a, b \in S : qual[a] > qual[b] => rk[a] < rk[b]}

\* _update_channel_stream_counts over the rows as given by chan and active
CountActive(c, chan, active) ==
    Cardinality({s \in StrmIds : chan[s] = c /\ active[s]})

\* the selection of a batch: ChannelStream.is_active, and the provider if given
Selected(prov) ==
    {s \in Streams : sActive[s] /\ (prov = 0 \/ sProv[s] = prov)}

\* _run_health_check_async (prov = 0) and _check_provider_streams_async
HealthBatch(prov, res) ==
    /\ \A s \in Selected(prov) : sCf[s] < MaxCf
    /\ \A s \in StrmIds : s \notin Selected(prov) => res[s] = "none"
    /\ probed' = res
    /\ sCf' = [s \in StrmIds |-> CfAfter(res[s], s)]
    /\ sActive' = [s \in StrmIds |-> ActiveAfter(res[s], s)]
    /\ IF prov = 0
       THEN \* the global run ends with _update_channel_stream_counts
            /\ cCount' = [c \in ChanIds |->
                            IF c \in Channels THEN CountActive(c, sChan, sActive')
                            ELSE cCount[c]]
            /\ \E rk \in [StrmIds -> 0..MaxStreams] :
                  /\ \A c \in Channels :
                        LET S == {s \in Streams : sChan[s] = c /\ sActive'[s]}
                        IN  [s \in S |-> rk[s]] \in Rankings(S, sQual)
                  /\ \A s \in StrmIds : (s \notin Streams \/ ~sActive'[s]) => rk[s] = sPrio[s]
                  /\ sPrio' = rk
       ELSE UNCHANGED <<cCount, sPrio>>
    /\ UNCHANGED <<muxVars, nChan, cNorm, cRegion, cVariant, nStrm, sChan, sProv,
                   sUrl, sQual>>

\* ------------------------------------------------- api/channels.update_stream
\* PATCH /streams/{id}: act is "on", "off" or "keep"; prio is the new value,
\* or -1 to keep it
UpdateStream(s, act, prio) ==
    /\ s \in Streams
    /\ act # "keep" \/ prio # -1
    /\ sActive' = IF act = "keep" THEN sActive ELSE [sActive EXCEPT ![s] = (act = "on")]
    /\ sPrio' = IF prio = -1 THEN sPrio ELSE [sPrio EXCEPT ![s] = prio]
    /\ probed' = NotProbed
    /\ UNCHANGED <<muxVars, chanVars, nStrm, sChan, sProv, sUrl, sCf, sQual>>

\* ---------------------------------------------------- api/merge.merge_channels
\* the bulk UPDATE ... WHERE channel_id = src: the channel of every row after it
MovedTo(src, tgt) == [s \in StrmIds |-> IF sChan[s] = src THEN tgt ELSE sChan[s]]

\* mutant: the delete cascades over the rows the source had before the UPDATE
DeleteCascade_Stale(chanOf, ch) ==
    [s \in StrmIds |-> IF sChan[s] = ch THEN NoRow ELSE chanOf[s]]

\* db.delete(channel) with rows as in chanOf: Channel.streams is loaded at the
\* delete and cascades ("all, delete-orphan", ondelete="CASCADE") to the rows
\* whose channel_id is ch at that moment
DeleteCascade(chanOf, ch) ==
    [s \in StrmIds |-> IF chanOf[s] = ch THEN NoRow ELSE chanOf[s]]

MergeChannels(src, tgt) ==
    /\ src # tgt
    /\ src \in Channels /\ tgt \in Channels
    /\ sChan' = DeleteCascade(MovedTo(src, tgt), src)
    /\ cCount' = [cCount EXCEPT ![tgt] = Cardinality({s \in StrmIds : sChan'[s] = tgt}),
                                ![src] = 0]
    /\ cNorm' = [cNorm EXCEPT ![src] = NoRow]
    /\ cRegion' = [cRegion EXCEPT ![src] = 0]
    /\ cVariant' = [cVariant EXCEPT ![src] = 0]
    /\ probed' = NotProbed
    /\ UNCHANGED <<muxVars, nChan, nStrm, sProv, sUrl, sActive, sCf, sQual, sPrio>>

Results == [StrmIds -> {"alive", "dead", "none"}]

DbNext ==
    \/ /\ \E prov \in Providers, n \in Names, r \in Regions, v \in Variants,
             u \in Urls, q \in Qualities : SyncEntry(prov, n, r, v, u, q)
       /\ nChan' <= DbRows /\ nStrm' <= DbRows
       /\ UNCHANGED auxVars
    \/ /\ \E prov \in 0..NumProviders, res \in Results : HealthBatch(prov, res)
       /\ UNCHANGED auxVars
    \/ /\ \E s \in StrmIds, act \in {"keep", "on", "off"}, prio \in -1..MaxPrio :
             UpdateStream(s, act, prio)
       /\ UNCHANGED auxVars
    \/ /\ \E src, tgt \in ChanIds : MergeChannels(src, tgt)
       /\ UNCHANGED auxVars

\* ------------------------------------------------ two syncs at the same time
\* Each sync_provider task has its own database session. The SELECTs of
\* _find_or_create_channel (lines 273-298) see the rows committed so far;
\* the worker then writes according to what they returned.
RaceLookup(w, nm) ==
    LET n == Extracted[nm].n
        r == Extracted[nm].r
        v == Extracted[nm].v
        how == ResolveHow(n, r, v)
    IN  /\ resolving[w].pc = "idle"
        /\ \E ch \in ResolveTo(n, r, v) :
              resolving' = [resolving EXCEPT ![w] =
                  [pc |-> "found", nm |-> nm, how |-> how,
                   ch |-> IF how = "new" THEN NoRow ELSE ch]]
        /\ UNCHANGED <<muxVars, dbVars, resVars, ruleVars, probeVars, extVars>>

\* the writes of the worker: the channel row if none was found, the count,
\* the stream row
RaceWrite(w, u, q) ==
    LET e == resolving[w]
        ch == IF e.how = "new" THEN nChan + 1 ELSE e.ch
    IN  /\ e.pc = "found"
        /\ AttachEntry(w, Extracted[e.nm].n, Extracted[e.nm].r, Extracted[e.nm].v,
                       u, q, ch, e.how)
        /\ merge_info' = MergeInfoFor(e.nm, ch, e.how)
        /\ sName' = IF nStrm' = nStrm THEN sName
                    ELSE [sName EXCEPT ![nStrm'] = e.nm]
        /\ resolving' = [resolving EXCEPT ![w] = IdleWorker]
        /\ UNCHANGED <<ruleVars, probeVars, extVars>>

\* the names both providers list: "ESPN", "ESPN [East]"
RaceNames == {1, 2}

RaceNext ==
    \/ \E w \in Providers, nm \in RaceNames : RaceLookup(w, nm)
    \/ \E w \in Providers, u \in Urls, q \in Qualities : RaceWrite(w, u, q)

\* provider syncs over the catalogue's names
ResolveNext ==
    /\ \E prov \in Providers, nm \in NameIds, u \in Urls, q \in Qualities :
          IngestEntry(prov, nm, u, q)
    /\ UNCHANGED <<raceVars, ruleVars, probeVars, extVars>>

\* ------------------------------------------------------------- merge rules
\* Channel.name: the raw name of the entry that created the row
\* (sync_tasks.py:335); no two names of the catalogue have the same
\* normalized name, region and variant
ChannelName(c) ==
    CHOOSE nm \in NameIds :
        IdentityOf[nm] = <<NormTable[cNorm[c]], cRegion[c], cVariant[c]>>

\* the patterns and region filters the operator writes rules with; "" and 0
\* stand for None
RulePatterns == {"espn", "east"}
RuleRegions == {0, 1}
RuleTypes == {"never_merge", "always_merge"}

\* MergeRule.matches; re.search of a word finds it in the raw name
\* (brackets included)
Matches(rule, nm1, nm2, r1, r2) ==
    /\ rule.pattern1 # "" => rule.pattern1 \in WordsOf(Catalogue[nm1])
    /\ rule.pattern2 # "" => rule.pattern2 \in WordsOf(Catalogue[nm2])
    /\ ~(rule.region1 # 0 /\ r1 # 0 /\ rule.region1 # r1)
    /\ ~(rule.region2 # 0 /\ r2 # 0 /\ rule.region2 # r2)

\* POST /merge-rules
CreateMergeRule(t, p1, p2, g1, g2) ==
    /\ Cardinality(rules) < MaxRules
    /\ rules' = rules \cup {[rule_type |-> t, pattern1 |-> p1, pattern2 |-> p2,
                              region1 |-> g1, region2 |-> g2, enabled |-> TRUE]}
    /\ UNCHANGED <<muxVars, dbVars, resVars, raceVars, probeVars, extVars>>

\* DELETE /merge-rules/{rule_id}
DeleteMergeRule(rule) ==
    /\ rule \in rules
    /\ rules' = rules \ {rule}
    /\ UNCHANGED <<muxVars, dbVars, resVars, raceVars, probeVars, extVars>>

\* PUT /merge-rules/{rule_id}/toggle
ToggleMergeRule(rule) ==
    /\ rule \in rules
    /\ rules' = (rules \ {rule}) \cup {[rule EXCEPT !.enabled = ~rule.enabled]}
    /\ UNCHANGED <<muxVars, dbVars, resVars, raceVars, probeVars, extVars>>

\* the provider lists "ESPN", "ESPN [East]" and "ESPN [West]" while the
\* operator edits the rules
RuleNames == {1, 2, 3}

RuleNext ==
    \/ \E t \in RuleTypes, p1 \in RulePatterns, p2 \in RulePatterns \cup {""},
          g1, g2 \in RuleRegions : CreateMergeRule(t, p1, p2, g1, g2)
    \/ \E rule \in rules : DeleteMergeRule(rule)
    \/ \E rule \in rules : ToggleMergeRule(rule)
    \/ /\ \E prov \in Providers, nm \in RuleNames, u \in Urls, q \in Qualities :
             IngestEntry(prov, nm, u, q)
       /\ UNCHANGED <<raceVars, ruleVars, probeVars, extVars>>

\* -------------------------------------------------- StreamHealthChecker
\* One call of check_streams_batch. probe[s] is the position of the
\* _check_and_record task of stream s: "none" (not in the batch), "no_url"
\* (skipped by `if not stream_url`), "queued" (waiting for the semaphore
\* before HEAD), "head", "retry" (waiting for the semaphore before GET),
\* "get", or, once the task has finished, how its last probe ended.
\* outcome[s] is the entry of s in the returned list: "alive", "dead", or
\* "none" when the list has no entry for s.
AliveStatuses == {"200", "206", "302", "301"}
FallbackStatuses == {"405", "501"}
\* how a probe can end: a status code, httpx.TimeoutException, or any other
\* exception
Responses == {"200", "404", "405", "timeout", "exception"}

InFlight == {s \in StrmIds : probe[s] \in {"head", "get"}}
Waiting == {s \in StrmIds : probe[s] \in {"queued", "retry"}}
BatchIdle == InFlight = {} /\ Waiting = {}

\* mutant: an exception leaves check_stream and _check_and_record returns None
ResultOf_Raises(resp) ==
    IF resp \in AliveStatuses THEN "alive"
    ELSE IF resp = "exception" THEN "none" ELSE "dead"

\* is_alive of the HealthCheckResult check_stream returns, as the entry
\* _check_and_record builds from it
ResultOf(resp) == IF resp \in AliveStatuses THEN "alive" ELSE "dead"

\* mutant: the probe starts without waiting for the semaphore
MayEnter_Unbounded(free) == TRUE

\* `async with self.semaphore`: the body is entered when a permit is free
MayEnter(free) == free > 0

\* check_streams_batch is called with the streams of `batch`, those of
\* `urls` having a stream_url; a new checker has all its permits
CheckStreamsBatch(batch, urls) ==
    /\ BatchIdle
    /\ batch # {} /\ urls \subseteq batch
    /\ probe' = [s \in StrmIds |-> IF s \in urls THEN "queued"
                                   ELSE IF s \in batch THEN "no_url" ELSE "none"]
    /\ outcome' = [s \in StrmIds |-> "none"]
    /\ permits' = MaxConcurrent
    /\ UNCHANGED <<muxVars, dbVars, resVars, raceVars, ruleVars, extVars>>

\* a task enters `async with self.semaphore` for its HEAD or its GET probe
EnterSemaphore(s) ==
    /\ s \in Waiting
    /\ MayEnter(permits)
    /\ permits' = permits - 1
    /\ probe' = [probe EXCEPT ![s] = IF probe[s] = "queued" THEN "head" ELSE "get"]
    /\ UNCHANGED <<muxVars, dbVars, resVars, raceVars, ruleVars, extVars, outcome>>

\* check_stream returns (every exception is turned into a result) and the
\* permit is released; after a HEAD answered 405 or 501 the task goes on to
\* the GET probe
CheckStreamReturns(s, resp) ==
    /\ s \in InFlight
    /\ permits' = permits + 1
    /\ probe' = [probe EXCEPT ![s] =
                    IF probe[s] = "head" /\ resp \in FallbackStatuses THEN "retry"
                    ELSE resp]
    /\ UNCHANGED <<muxVars, dbVars, resVars, raceVars, ruleVars, extVars, outcome>>

\* asyncio.gather returns once every task has finished; the entries that
\* are exceptions or None are dropped
GatherReturns ==
    /\ BatchIdle
    /\ \E s \in StrmIds : probe[s] \in Responses
    /\ outcome = [s \in StrmIds |-> "none"]
    /\ outcome' = [s \in StrmIds |->
                      IF probe[s] \in Responses THEN ResultOf(probe[s]) ELSE "none"]
    /\ UNCHANGED <<muxVars, dbVars, resVars, raceVars, ruleVars, extVars, probe, permits>>

ProbeNext ==
    \/ \E batch \in SUBSET StrmIds, urls \in SUBSET StrmIds : CheckStreamsBatch(batch, urls)
    \/ \E s \in StrmIds : EnterSemaphore(s)
    \/ \E s \in StrmIds, resp \in Responses : CheckStreamReturns(s, resp)
    \/ GatherReturns

\* a provider that keeps listing "ESPN" and "BBC One" is synced again and
\* again, and the operator merges channels in between
ReingestNames == {1, 6}

ReingestNext ==
    \/ /\ \E prov \in Providers, nm \in ReingestNames, u \in Urls, q \in Qualities :
             IngestEntry(prov, nm, u, q)
       /\ UNCHANGED <<raceVars, ruleVars, probeVars, extVars>>
    \/ /\ \E src, tgt \in ChanIds : MergeChannels(src, tgt)
       /\ UNCHANGED auxVars

\* ------------------------------ ChannelMatcher.normalize_name, by character
\* A name is a sequence of characters. "A" stands for the upper-case
\* letters, "a" for the lower-case ones, "-" for the two characters of [|-];
\* (parentheses) are treated by the same substitution as [brackets].
Chars == {"a", "A", " ", "-", "[", "]"}
Texts == UNION {[1..n -> Chars] : n \in 0..MaxLen}

\* str.lower()
Lower(s) == [i \in 1..Len(s) |-> IF s[i] = "A" THEN "a" ELSE s[i]]

\* str.lstrip() / str.rstrip() / str.strip()
LStrip(s) ==
    LET ix == {i \in 1..Len(s) : s[i] # " "}
    IN  IF ix = {} THEN <<>>
        ELSE SubSeq(s, CHOOSE i \in ix : \A j \in ix : i <= j, Len(s))

RStrip(s) ==
    LET ix == {i \in 1..Len(s) : s[i] # " "}
    IN  IF ix = {} THEN <<>>
        ELSE SubSeq(s, 1, CHOOSE i \in ix : \A j \in ix : i >= j)

Strip(s) == RStrip(LStrip(s))

\* re.sub(r'\[.*?\]', ' ', s): from the left, each opening character that
\* has a closing one after it is replaced, up to the first closing
\* character, by one space
RECURSIVE SubPairs(_, _, _)
SubPairs(s, open, close) ==
    LET starts == {i \in 1..Len(s) :
                      s[i] = open /\ \E j \in (i + 1)..Len(s) : s[j] = close}
    IN  IF starts = {} THEN s
        ELSE LET i == CHOOSE x \in starts : \A y \in starts : x <= y
                 ends == {j \in (i + 1)..Len(s) : s[j] = close}
                 j == CHOOSE x \in ends : \A y \in ends : x <= y
             IN  SubSeq(s, 1, i - 1) \o <<" ">>
                     \o SubPairs(SubSeq(s, j + 1, Len(s)), open, close)

\* re.sub(r'^\s*[|-]?\s*', ' ', s): leading whitespace, at most one dash or
\* pipe, and the whitespace after it
SubLeading(s) ==
    LET t == LStrip(s)
        u == IF t # <<>> /\ Head(t) = "-" THEN Tail(t) ELSE t
    IN  <<" ">> \o LStrip(u)

\* re.sub(r'\s*[|-]?\s*$', ' ', s): the longest tail made of whitespace, at
\* most one dash or pipe, and whitespace
SubTrailing(s) ==
    LET t == RStrip(s)
        u == IF t # <<>> /\ t[Len(t)] = "-" THEN SubSeq(t, 1, Len(t) - 1) ELSE t
    IN  RStrip(u) \o <<" ">>

\* re.sub(r'\s+', ' ', s) and ' '.join(s.split())
RECURSIVE Squeeze(_)
Squeeze(s) ==
    IF Len(s) < 2 THEN s
    ELSE IF s[1] = " " /\ s[2] = " " THEN Squeeze(Tail(s))
    ELSE <<s[1]>> \o Squeeze(Tail(s))

\* normalize_name over characters
normalize_text(name) ==
    IF name = <<>> THEN <<>>
    ELSE Strip(Squeeze(SubTrailing(SubLeading(
             SubPairs(Strip(Lower(name)), "[", "]")))))

\* no name is being normalized
NormStart == raw = <<>> /\ alt = <<>> /\ keys = <<>>

\* the same name, written with another letter case at position i
SwapCase(i) ==
    /\ keys = <<>>
    /\ i \in 1..Len(alt) /\ alt[i] \in {"a", "A"}
    /\ alt' = [alt EXCEPT ![i] = IF alt[i] = "a" THEN "A" ELSE "a"]
    /\ UNCHANGED <<notNorm, raw, keys>>

\* the same name, written with one more space where it has a space at i
Widen(i) ==
    /\ keys = <<>>
    /\ i \in 1..Len(alt) /\ alt[i] = " " /\ Len(alt) <= MaxLen
    /\ alt' = SubSeq(alt, 1, i) \o <<" ">> \o SubSeq(alt, i + 1, Len(alt))
    /\ UNCHANGED <<notNorm, raw, keys>>

\* normalize_name(raw) and normalize_name(alt)
NormalizeBoth ==
    /\ keys = <<>>
    /\ keys' = <<normalize_text(raw), normalize_text(alt)>>
    /\ UNCHANGED <<notNorm, raw, alt>>

\* normalize_name applied to the key it returned for raw
NormalizeAgain ==
    /\ Len(keys) = 2
    /\ keys' = Append(keys, normalize_text(keys[1]))
    /\ UNCHANGED <<notNorm, raw, alt>>

NormalizeNext ==
    \/ \E i \in 1..(MaxLen + 1) : SwapCase(i)
    \/ \E i \in 1..(MaxLen + 1) : Widen(i)
    \/ NormalizeBoth
    \/ NormalizeAgain

\* ------------------------------ QualityAnalyzer._calculate_quality_score
NoBitrate == -1
NotScored == -1

\* QualityAnalyzer.RESOLUTION_PRIORITY
RESOLUTION_PRIORITY ==
    [r \in {"8K", "4K", "2160p", "1440p", "QHD", "1080p", "FHD", "720p", "HD",
            "576p", "480p", "SD", "360p", "240p"} |->
        CASE r = "8K" -> 1000
          [] r \in {"4K", "2160p"} -> 900
          [] r \in {"1440p", "QHD"} -> 800
          [] r \in {"1080p", "FHD"} -> 700
          [] r \in {"720p", "HD"} -> 600
          [] r = "576p" -> 500
          [] r = "480p" -> 400
          [] r = "SD" -> 300
          [] r = "360p" -> 200
          [] r = "240p" -> 100]

\* a resolution string; "" is None, "other" any string that is no key of
\* RESOLUTION_PRIORITY
Resolutions == DOMAIN RESOLUTION_PRIORITY \cup {"", "other"}

\* the bitrates analysed; on each of them below the expected bitrate the
\* floating-point product `score * ratio` truncates to the integer quotient
Bitrates == {NoBitrate, 0, 1, 250, 499, 500, 999, 1000, 2499, 2500, 4999, 5000,
             14999, 15000}

\* QualityAnalyzer._get_expected_bitrate with QUALITY_BITRATES; 0 is None
get_expected_bitrate(resolution) ==
    CASE resolution \in {"4K", "2160p"} -> 15000
      [] resolution \in {"1080p", "FHD"} -> 5000
      [] resolution \in {"720p", "HD"} -> 2500
      [] resolution \in {"480p", "SD"} -> 1000
      [] resolution \in {"360p", "240p"} -> 500
      [] OTHER -> 0

\* `self.RESOLUTION_PRIORITY.get(resolution, 0)`
BaseScore(resolution) ==
    IF resolution \in DOMAIN RESOLUTION_PRIORITY THEN RESOLUTION_PRIORITY[resolution]
    ELSE 0

\* QualityAnalyzer._calculate_quality_score; `if bitrate:` skips None and 0
calculate_quality_score(resolution, bitrate) ==
    LET score == BaseScore(resolution)
        expected_bitrate == get_expected_bitrate(resolution)
    IN  IF bitrate = NoBitrate \/ bitrate = 0 THEN score
        ELSE IF expected_bitrate = 0 THEN score
        ELSE IF bitrate >= expected_bitrate THEN score + 50
        ELSE (score * bitrate) \div expected_bitrate

\* no stream is being analysed
ScoreStart == qTier = "" /\ qKbps = NoBitrate /\ qScore = NotScored

\* the stream is analysed and found to have the given bitrate
AnalyzeStream(bitrate) ==
    /\ qKbps' = bitrate
    /\ qScore' = calculate_quality_score(qTier, bitrate)
    /\ UNCHANGED <<notScore, qTier>>

ScoreNext == \E bitrate \in Bitrates : AnalyzeStream(bitrate)

\* ===================================================== bandwidth_limiter
\* Time is counted in units of 1/capacity seconds, so that one unit of time
\* is worth one token and every quantity is an integer. `since` stops at the
\* capacity: min() makes a longer wait add nothing more.
Smaller(a, b) == IF a < b THEN a ELSE b

\* as constructed (lines 68-72, 86-90): a full bucket, refilled just now
BktStart ==
    /\ tokens = BucketCapacity
    /\ since = 0
    /\ bPc = "idle"
    /\ bNeed = 0
    /\ bWait = 0

\* BandwidthBucket.refill: the value of self.tokens after it
Refilled == Smaller(BucketCapacity, tokens + since)

\* one unit of time passes
Elapse ==
    /\ since' = Smaller(BucketCapacity, since + 1)
    /\ bWait' = IF bWait > 0 THEN bWait - 1 ELSE 0
    /\ UNCHANGED <<notBkt, tokens, bPc, bNeed>>

\* refill(), then the loop test: either the tokens are taken and consume
\* returns, or the coroutine sleeps for deficit / capacity seconds
RefillAndTest(n) ==
    /\ since' = 0
    /\ bNeed' = n
    /\ IF Refilled < n
       THEN /\ tokens' = Refilled
            /\ bWait' = n - Refilled
            /\ bPc' = "sleeping"
       ELSE /\ tokens' = Refilled - n
            /\ bWait' = 0
            /\ bPc' = "returned"
    /\ UNCHANGED notBkt

\* await bucket.consume(n)
Consume(n) ==
    /\ bPc = "idle"
    /\ RefillAndTest(n)

\* asyncio.sleep(wait_time) is over: refill() and the loop test again
WakeUp ==
    /\ bPc = "sleeping"
    /\ bWait = 0
    /\ RefillAndTest(bNeed)

\* the caller goes on, to its next chunk
ConsumeReturns ==
    /\ bPc = "returned"
    /\ bPc' = "idle"
    /\ bNeed' = 0
    /\ UNCHANGED <<notBkt, tokens, since, bWait>>

BucketNext ==
    \/ Elapse
    \/ \E n \in 1..MaxBytes : Consume(n)
    \/ WakeUp
    \/ ConsumeReturns

\* =========================================== manual split and manual merge
\* no row carries merge metadata, no manual request has been answered
NoReply == [op |-> "none", channel |-> NoRow, count |-> 0]

ManStart ==
    /\ sMethod = [s \in StrmIds |-> "none"]
    /\ sManual = [s \in StrmIds |-> FALSE]
    /\ reply = NoReply

\* the sync loop's entry with the merge metadata it stores on a new row
IngestRow(prov, nm, u, q) ==
    /\ IngestEntry(prov, nm, u, q)
    /\ sMethod' = IF nStrm' = nStrm THEN sMethod
                  ELSE [sMethod EXCEPT ![nStrm'] = merge_info'.method]
    /\ UNCHANGED <<sManual, reply>>

\* Channel.normalize_name(name), which split_channel calls for the new row.
\* models/channel.py defines no method of that name; the call is taken to be
\* ChannelMatcher.normalize_name, the normalisation every other normalized_name
\* column value comes from.
Channel_normalize_name(nm) == NormKey(Catalogue[nm])

\* POST /channels/{ch}/split with stream_ids = ids and new_channel_name = nm
\* (0: not given, the name is the original_name of the first selected row)
SplitChannel(ch, ids, nm) ==
    LET streams_to_split == {s \in Streams : s \in ids /\ sChan[s] = ch}
        new == nChan + 1
        updated == {s \in Streams : s \in ids}
    IN  /\ ids # {}
        /\ ch \in Channels
        /\ streams_to_split # {}
        /\ nChan < MaxChannels
        /\ \E first \in streams_to_split :
              LET new_channel_name == IF nm # 0 THEN nm ELSE sName[first]
              IN  /\ new_channel_name # 0
                  /\ cNorm' = [cNorm EXCEPT ![new] = Channel_normalize_name(new_channel_name)]
        /\ nChan' = new
        /\ cRegion' = [cRegion EXCEPT ![new] = cRegion[ch]]
        /\ cVariant' = [cVariant EXCEPT ![new] = cVariant[ch]]
        /\ sChan' = [s \in StrmIds |-> IF s \in updated THEN new ELSE sChan[s]]
        /\ sManual' = [s \in StrmIds |-> IF s \in updated THEN TRUE ELSE sManual[s]]
        /\ sMethod' = [s \in StrmIds |->
                          IF s \in updated THEN "manual_split" ELSE sMethod[s]]
        /\ cCount' = [cCount EXCEPT
                         ![new] = Cardinality(streams_to_split),
                         ![ch] = Cardinality({s \in StrmIds : sChan'[s] = ch /\ s \notin ids})]
        /\ reply' = [op |-> "split", channel |-> new,
                     count |-> Cardinality(streams_to_split)]
        /\ probed' = NotProbed
        /\ UNCHANGED <<muxVars, nStrm, sProv, sUrl, sActive, sCf, sQual, sPrio,
                       resVars, offMan>>

\* POST /channels/{src}/merge-with/{tgt}, with the metadata of the UPDATE and
\* the response
MergeWith(src, tgt) ==
    /\ MergeChannels(src, tgt)
    /\ sManual' = [s \in StrmIds |-> IF sChan[s] = src THEN TRUE ELSE sManual[s]]
    /\ sMethod' = [s \in StrmIds |->
                      IF sChan[s] = src THEN "manual_merge" ELSE sMethod[s]]
    /\ reply' = [op |-> "merge", channel |-> tgt, count |-> cCount'[tgt]]
    /\ UNCHANGED <<resVars, offMan>>

\* the names the provider lists while the operator splits and merges
ManualNames == {1, 6}

ManualNext ==
    \/ /\ \E prov \in Providers, nm \in ManualNames, u \in Urls, q \in Qualities :
             IngestRow(prov, nm, u, q)
       /\ UNCHANGED offMan
    \/ \E ch \in ChanIds, ids \in SUBSET StrmIds, nm \in {0} \cup ManualNames :
          SplitChannel(ch, ids, nm)
    \/ \E src, tgt \in ChanIds : MergeWith(src, tgt)

\* ---------------------------------------------------------- specification
MuxNext ==
    \/ \E g \in Callers, c \in ClientIds : Call(g, c)
    \/ \E g \in Callers : GetOrCreate(g)
    \/ \E g \in Callers : CloseWaitDone(g)
    \/ \E g \in Callers : Subscribe(g)
    \/ \E g \in Callers : GetChunk(g)
    \/ \E g \in Callers : Disconnect(g)
    \/ \E force \in BOOLEAN : CleanupIdleStreams(force)
    \/ CleanupCloseDone
    \/ \E p \in Proxies : FetchConnected(p)
    \/ \E p \in Proxies : FetchError(p)
    \/ \E p \in Proxies : FetchEnd(p)
    \/ \E p \in Proxies : ChunkArrives(p)
    \/ \E p \in Proxies : PutUnblocked(p)
    \/ \E p \in Proxies : PutTimeout(p)
    \/ \E p \in Proxies : FinalPutUnblocked(p)
    \/ \E p \in Proxies : FetchCancelled(p)
    \/ GraceElapses

\* nothing of the pure functions is being computed
ExtStart == NormStart /\ ScoreStart /\ ManStart /\ BktStart

BaseStart == MuxStart /\ DbStart /\ ResStart /\ AuxStart

Init == BaseStart /\ ExtStart

\* normalize_name is called with any name
InitNormalize ==
    /\ BaseStart /\ ScoreStart /\ ManStart /\ BktStart
    /\ raw \in Texts /\ alt = raw /\ keys = <<>>

\* a stream of any resolution is about to be analysed
InitScore ==
    /\ BaseStart /\ NormStart /\ ManStart /\ BktStart
    /\ qTier \in Resolutions /\ qKbps = NoBitrate /\ qScore = NotScored

SpecMux == Init /\ [][MuxNext]_vars

\* The event loop runs every task that is ready: a requested cancellation is
\* delivered, a put on a queue with a free slot completes, the 5 s timer of
\* wait_for fires, and `await self._task` returns once the task is done.
\* Nothing obliges upstream to send or a client to read.
MuxFairness ==
    /\ \A p \in Proxies : WF_vars(FetchCancelled(p))
    /\ \A p \in Proxies : WF_vars(FinalPutUnblocked(p))
    /\ \A p \in Proxies : WF_vars(PutUnblocked(p))
    /\ \A p \in Proxies : WF_vars(PutTimeout(p))
    /\ \A g \in Callers : WF_vars(CloseWaitDone(g))
    /\ WF_vars(CleanupCloseDone)

SpecMuxFair == Init /\ [][MuxNext]_vars /\ MuxFairness

SpecDb == Init /\ [][DbNext]_vars

SpecResolve == Init /\ [][ResolveNext]_vars

SpecRace == Init /\ [][RaceNext]_vars

SpecReingest == Init /\ [][ReingestNext]_vars

SpecRules == Init /\ [][RuleNext]_vars

SpecProbe == Init /\ [][ProbeNext]_vars

SpecNormalize == InitNormalize /\ [][NormalizeNext]_vars

SpecScore == InitScore /\ [][ScoreNext]_vars

SpecManual == Init /\ [][ManualNext]_vars

\* Time passes, and the event loop resumes a coroutine whose sleep is over.
BucketFairness == WF_vars(Elapse) /\ WF_vars(WakeUp)

SpecBucket == Init /\ [][BucketNext]_vars /\ BucketFairness


\* ======================================================= multiplexer claims
Range(q) == {q[i] : i \in 1..Len(q)}

\* callers to which get_or_create_stream has returned a proxy
Returned == {g \in Callers : pc[g] \in {"holding", "reading"}}

\* C1: concurrent get_or_create_stream calls for the key share one session.
\* At any time at most one proxy of the key is alive and at most one fetch
\* task is pending; as long as no proxy created for the key has died or been
\* closed, exactly one proxy was created and registered and every caller to
\* which the call has returned holds that proxy.
C1_OneUpstreamPerKey ==
    /\ Cardinality({p \in Proxies : is_alive(p)}) <= 1
    /\ Cardinality({p \in Proxies : TaskPending(p)}) <= 1
    /\ (\A p \in 1..created : is_alive(p)) =>
           /\ created <= 1
           /\ \A g \in Returned : px[g] = active_streams /\ created = 1

\* C1 witness: every caller has called and got the same, only, live proxy
C1_Witness ==
    /\ Returned = Callers
    /\ created = 1
    /\ \A g \in Callers : px[g] = 1
    /\ is_alive(1)

\* C2 (as claimed): a reaper pass never removes from the registry a session
\* that has a client.
C2_NoReapWithClients ==
    [][(active_streams # NoProxy /\ active_streams' = NoProxy)
          => clients[active_streams] = {}]_vars

\* C3 (as claimed, finite form): a reaper pass over a session all of whose
\* subscribers have left and whose grace period has elapsed completes. It is never suspended in close() on a
\* fetch task that is itself blocked putting the sentinel on a full queue no
\* caller can read from.
C3_ReaperPassCompletes ==
    ~(/\ rpc = "closeWait"
      /\ idle
      /\ task[active_streams] = "finalPut"
      /\ ~cancelReq[active_streams]
      /\ QueueFull(active_streams)
      /\ upClosed[active_streams] = 1
      /\ \A g \in Callers : pc[g] = "done")

\* C24 (as claimed): whoever holds the manager lock while it waits in
\* StreamProxy.close() eventually gets on and releases the lock.
C24_CloseCompletes == (lock # NoHolder) ~> (lock = NoHolder)

\* C25 (as claimed): a caller starts read_chunks only on a session that is
\* still registered; the most recent session, which only the reaper can have
\* removed, is never closed and deleted between get_or_create_stream
\* returning it and the caller subscribing (its fetch not having failed).
C25_NotReapedBeforeSubscribe ==
    [][\A g \in Callers :
          (pc[g] = "holding" /\ pc'[g] = "reading" /\ px[g] = created
                                /\ ~error[px[g]])
              => active_streams = px[g]]_vars

\* C4 (as claimed): every chunk admitted while a caller was subscribed has
\* been yielded to that caller or is still in the queue for it.
C4_EveryChunkToEverySubscriber ==
    \A g \in Callers :
        pc[g] = "reading" =>
            \A c \in owed[g] : c \in recv[g] \/ c \in Range(queue[px[g]])

\* C5 (as claimed, finite form): a caller that was subscribed when the fetch
\* ended and is still reading has the end-of-stream sentinel ahead of it, in
\* the queue or about to be put.
C5_EndOfStreamForAll ==
    \A g \in Callers :
        (pc[g] = "reading" /\ endOwed[g]) =>
            \/ EndOfStream \in Range(queue[px[g]])
            \/ task[px[g]] = "finalPut"

\* C6 (as claimed): a chunk arriving on a full queue is admitted at once in
\* place of the oldest buffered chunk, and the read loop goes on.
C6_DropOldest ==
    [][\A p \in Proxies :
          (arrived'[p] = arrived[p] + 1 /\ QueueFull(p) /\ is_running[p]) =>
              /\ queue'[p] = Append(Tail(queue[p]), arrived'[p])
              /\ task'[p] = "streaming"]_vars

C9_HealthThreshold ==
    [][\A s \in StrmIds :
          /\ probed'[s] = "alive" =>
                 sCf'[s] = 0 /\ sActive'[s] = sActive[s]
          /\ probed'[s] = "dead" =>
                 /\ sCf'[s] = sCf[s] + 1
                 /\ sActive[s]
                 /\ sActive'[s] = (sCf'[s] <= FailureThreshold - 1)
          /\ (probed'[s] = "none" /\ \E t \in StrmIds : probed'[t] # "none") =>
                 sCf'[s] = sCf[s] /\ sActive'[s] = sActive[s]]_dbVars

\* C9 witness: a stream went inactive at the failed probe that made its count
\* reach the threshold, while another stream's count was reset by a success
C9_Witness ==
    \E s, t \in Streams :
        /\ probed[s] = "dead" /\ sCf[s] = FailureThreshold /\ ~sActive[s]
        /\ probed[t] = "alive" /\ sCf[t] = 0 /\ sActive[t]

\* C10 (as claimed): every channel's stream_count is the number of its active
\* stream rows.
C10_StreamCountIsActiveCount ==
    \A c \in Channels : cCount[c] = CountActive(c, sChan, sActive)

\* ========================================================= resolve claims
\* the channels whose (normalized name, region, variant) is that of the name
SameIdentity(nm) ==
    {c \in Channels :
        <<NormTable[cNorm[c]], cRegion[c], cVariant[c]>> = IdentityOf[nm]}

\* C11: whenever a channel with exactly the entry's normalized name, region
\* and variant exists, the resolve of the entry returns such a channel with
\* confidence 100 and method exact_match, and does not run the fuzzy
\* candidate query.
C11_ExactPrecedence ==
    [][\A prov \in Providers, nm \in NameIds, u \in Urls, q \in Qualities :
          (IngestEntry(prov, nm, u, q) /\ SameIdentity(nm) # {}) =>
              /\ merge_info'.channel \in SameIdentity(nm)
              /\ merge_info'.confidence = 100
              /\ merge_info'.method = "exact_match"
              /\ ~merge_info'.fuzzy]_vars

\* C11 witness: an exact hit while the fuzzy candidate query would have
\* returned several channels of that normalized name
C11_Witness ==
    /\ merge_info.method = "exact_match" /\ ~merge_info.fuzzy
    /\ Cardinality({c \in Channels : cNorm[c] = cNorm[merge_info.channel]}) >= 2

\* C12: a resolve never attaches an entry to an existing channel whose region
\* differs from the entry's when both have one, nor to one whose variant
\* differs when both have one; and no channel ever holds both a "Channel
\* East" and a "Channel West" stream.
C12_RegionVariantDisqualify ==
    /\ [][\A prov \in Providers, nm \in NameIds, u \in Urls, q \in Qualities :
            (IngestEntry(prov, nm, u, q) /\ merge_info'.channel \in Channels) =>
                LET c == merge_info'.channel
                    r == IdentityOf[nm][2]
                    v == IdentityOf[nm][3]
                IN  /\ (r # 0 /\ cRegion[c] # 0) => cRegion[c] = r
                    /\ (v # 0 /\ cVariant[c] # 0) => cVariant[c] = v]_vars
    /\ [](\A s, t \in Streams :
             (sName[s] = 8 /\ sName[t] = 9) => sChan[s] # sChan[t])

\* C12 witness: two channels of one normalized name and different regions,
\* the second created by a resolve whose fuzzy step rejected the first
C12_Witness ==
    \E c, d \in Channels :
        /\ cNorm[c] = cNorm[d]
        /\ cRegion[c] # 0 /\ cRegion[d] # 0 /\ cRegion[c] # cRegion[d]
        /\ merge_info.channel = d /\ merge_info.fuzzy
        /\ merge_info.method = "exact_match"

\* C13 (as claimed): the streams ingested as "BBC One HD" and as "BBC One"
\* belong to one channel.
C13_QualityTokenMerged ==
    \A s, t \in Streams :
        (sName[s] = 7 /\ sName[t] = 6) => sChan[s] = sChan[t]

\* C14 (as claimed): no two channel rows have the same normalized name,
\* region and variant.
C14_OneChannelPerIdentity ==
    \A c, d \in Channels :
        (cNorm[c] = cNorm[d] /\ cRegion[c] = cRegion[d] /\ cVariant[c] = cVariant[d])
            => c = d

RulesFor(t, nm, c) ==
    {rule \in rules :
        /\ rule.enabled /\ rule.rule_type = t
        /\ Matches(rule, nm, ChannelName(c), IdentityOf[nm][2], cRegion[c])}

\* C16 (as claimed): the fuzzy step of a resolve never attaches an entry to
\* a channel when an enabled never_merge rule matches the two; and when an
\* enabled always_merge rule matches the entry and some channel, the resolve
\* returns a channel such a rule names.
C16_RulesConsulted ==
    [][\A prov \in Providers, nm \in RuleNames, u \in Urls, q \in Qualities :
          IngestEntry(prov, nm, u, q) =>
              /\ merge_info'.method = "fuzzy_match" =>
                     RulesFor("never_merge", nm, merge_info'.channel) = {}
              /\ (\E c \in Channels : RulesFor("always_merge", nm, c) # {}) =>
                     /\ merge_info'.channel \in Channels
                     /\ RulesFor("always_merge", nm, merge_info'.channel) # {}]_vars

\* the channels that qualify for the entry in the fuzzy step
Qualifying(nm) ==
    {c \in Channels :
        /\ calculate_similarity(nm, c) >= fuzzy_threshold
        /\ ~(IdentityOf[nm][2] # 0 /\ cRegion[c] # 0 /\ IdentityOf[nm][2] # cRegion[c])
        /\ ~(IdentityOf[nm][3] # 0 /\ cVariant[c] # 0 /\ IdentityOf[nm][3] # cVariant[c])}

C18_PrioritiesRanked ==
    probed # NotProbed =>
        \A c \in Channels :
            LET S == {s \in Streams : sChan[s] = c /\ sActive[s]}
            IN  [s \in S |-> sPrio[s]] \in Rankings(S, sQual)

\* C19: the list check_streams_batch returns has an entry for every stream
\* of the batch that has a URL, whatever happened to the probes of the
\* others, and the entry of a stream whose last probe failed, timed out or
\* raised says dead; and no probe that ended keeps a waiting one from the
\* semaphore.
C19_FailureNotFatal ==
    /\ [][GatherReturns =>
            \A s \in StrmIds :
                /\ probe[s] \in Responses => outcome'[s] # "none"
                /\ probe[s] \in Responses \ AliveStatuses => outcome'[s] = "dead"
                /\ probe[s] \notin Responses => outcome'[s] = "none"]_vars
    /\ [](Waiting # {} => (permits > 0 \/ InFlight # {}))

\* C19 witness: a returned batch in which one probe raised, one timed out
\* and one stream is reported alive
C19_Witness ==
    \E s, t, x \in StrmIds :
        /\ probe[s] = "exception" /\ outcome[s] = "dead"
        /\ probe[t] = "timeout" /\ outcome[t] = "dead"
        /\ probe[x] = "200" /\ outcome[x] = "alive"

\* C20: at most max_concurrent probes, HEAD or GET, are in flight.
C20_ConcurrencyBound ==
    /\ Cardinality(InFlight) <= MaxConcurrent
    /\ permits = MaxConcurrent - Cardinality(InFlight)

\* C20 witness: max_concurrent probes in flight, one of them the GET after a
\* HEAD, while another task waits for the semaphore
C20_Witness ==
    /\ Cardinality(InFlight) = MaxConcurrent
    /\ \E s \in InFlight : probe[s] = "get"
    /\ Waiting # {}

\* ====================================================== pure functions
\* C21 (as claimed): two spellings of a name that differ in letter case or
\* in the amount of whitespace get the same key, and normalizing a key
\* returns the key.
C21_NormalizeIdempotent ==
    /\ Len(keys) >= 2 => keys[1] = keys[2]
    /\ Len(keys) = 3 => keys[3] = keys[1]

\* the active streams of every channel carry a ranking by quality_score
Ranked ==
    \A c \in Channels :
        LET S == {s \in Streams : sChan[s] = c /\ sActive[s]}
        IN  [s \in S |-> sPrio[s]] \in Rankings(S, sQual)

\* C22 (as claimed): a health batch that finds the streams ranked and
\* deactivates none of them leaves every priority_order as it was: ranking
\* the same rows again gives the same order.
C22_RankingDeterministic ==
    [][(probed' # NotProbed /\ Ranked /\ sActive' = sActive) => sPrio' = sPrio]_vars

\* C23 (as claimed): the tiers are ordered 8K > 4K > 1440p > 1080p > 720p >
\* 576p > 480p > 360p > unknown = 0; the score is the base of the tier, or,
\* with a known bitrate and an expected minimum, base + 50 at or above the
\* minimum and floor(base * bitrate / minimum) below it; and for a fixed
\* tier a greater bitrate never gives a smaller score.
C23_ScoreFormula ==
    /\ LET P == RESOLUTION_PRIORITY
       IN  /\ P["8K"] > P["4K"] /\ P["4K"] > P["1440p"] /\ P["1440p"] > P["1080p"]
           /\ P["1080p"] > P["720p"] /\ P["720p"] > P["576p"] /\ P["576p"] > P["480p"]
           /\ P["480p"] > P["360p"] /\ P["360p"] > BaseScore("other")
           /\ BaseScore("other") = 0
    /\ [][LET base == BaseScore(qTier)
              minimum == get_expected_bitrate(qTier)
          IN  /\ qScore' = IF qKbps' = NoBitrate \/ minimum = 0 THEN base
                            ELSE IF qKbps' >= minimum THEN base + 50
                            ELSE (base * qKbps') \div minimum
              /\ (qKbps # NoBitrate /\ qKbps' > qKbps) => qScore' >= qScore]_vars

C27_ActiveBelowThreshold ==
    \A s \in Streams : sActive[s] => sCf[s] < FailureThreshold

C30_ConsumeTerminates ==
    /\ (bPc = "sleeping") ~> (bPc = "returned")
    /\ [](bPc = "returned" => 0 <= tokens /\ tokens <= BucketCapacity)

====
